---- MODULE Spec2Model ----
(***************************************************************************)
(* Transaction-history pipeline of EvmService (src/src/evm/evm.service.ts) *)
(* as a state machine: validation, cache lookup, inbound and outbound      *)
(* upstream queries, normalisation, merge / dedup / sort / truncate and    *)
(* the cache write.  Every await of getTransactionHistory is a step        *)
(* boundary; the code between two awaits is one atomic action.             *)
(***************************************************************************)
EXTENDS Integers, Sequences, FiniteSets, TLC

VARIABLES
  config,   \* ConfigService: TX_HISTORY_MAX_PAGE_SIZE and the configured API keys
  cache,    \* cacheManager: the stored keys, each with its [value, ttl]
  call,     \* per pipeline instance: position and locals of getTransactionHistory
  io,       \* per pipeline instance: queries sent, cache gets and sets made, responses
            \* seen, the order the fetched hashes came in and whether one came twice
  ncalls    \* number of calls started so far

vars == <<config, cache, call, io, ncalls>>

----------------------------------------------------------------------------
(* Bounds of the model *)

\* longest transfers list an upstream response carries
MaxBatch == 2
\* calls started in one behaviour
MaxCalls == 2

----------------------------------------------------------------------------
(* Values *)

\* JavaScript undefined, for optional strings
Undefined == "undefined"

\* JavaScript numbers as far as the page size needs them: a number, NaN, or undefined
Num(n) == [t |-> "num", v |-> n]
NaN == [t |-> "nan"]
Undef == [t |-> "undefined"]

\* an optional value: <<>> when absent, <<v>> when present
None == <<>>
Some(v) == <<v>>

Min(a, b) == IF a <= b THEN a ELSE b
Max(a, b) == IF a >= b THEN a ELSE b

Range(s) == {s[i] : i \in 1..Len(s)}

\* sequences over S of length at most n
SeqUpTo(S, n) == UNION {[1..k -> S] : k \in 0..n}

----------------------------------------------------------------------------
(* Characters and addresses.  A string is a sequence of one-character strings. *)

HexLower == {"0", "1", "2", "3", "4", "5", "6", "7", "8", "9", "a", "b", "c", "d", "e", "f"}
HexUpper == {"A", "B", "C", "D", "E", "F"}

\* String.prototype.toLowerCase on one character
lowerChar(c) ==
  CASE c = "A" -> "a" [] c = "B" -> "b" [] c = "C" -> "c"
    [] c = "D" -> "d" [] c = "E" -> "e" [] c = "F" -> "f"
    [] c = "X" -> "x"
    [] OTHER -> c

toLowerCase(s) == [i \in 1..Len(s) |-> lowerChar(s[i])]

\* number of hexadecimal characters of an address
AddressHexLen == 40

\* address.startsWith("0x")
startsWith0x(s) == Len(s) >= 2 /\ s[1] = "0" /\ s[2] = "x"

\* /^0x[a-fA-F0-9]{40}$/.test(address)
matchesAddressPattern(s) ==
  /\ Len(s) = AddressHexLen + 2
  /\ s[1] = "0" /\ s[2] = "x"
  /\ \A i \in 3..Len(s) : s[i] \in HexLower \cup HexUpper

\* variant: the pattern test is left out
validateAddress_noPatternTest(address) ==
  IF ~startsWith0x(address) THEN "Address must start with 0x"
  ELSE IF Len(address) # AddressHexLen + 2 THEN "Address must be 42 characters"
  ELSE "ok"

\* validateAddress: "ok" or the message of the BadRequestException it throws
validateAddress(address) ==
  IF ~startsWith0x(address) THEN "Address must start with 0x"
  ELSE IF Len(address) # AddressHexLen + 2 THEN "Address must be 42 characters"
  ELSE IF ~matchesAddressPattern(address) THEN "Invalid address format"
  ELSE "ok"

\* 0x followed by d1 d2 and 38 times the digit pad
Addr(d1, d2, pad) == <<"0", "x", d1, d2>> \o [i \in 1..(AddressHexLen - 2) |-> pad]

AddrMixed == Addr("A", "b", "1")
AddrLower == Addr("a", "b", "1")
\* 41 characters
AddrShort == SubSeq(AddrLower, 1, AddressHexLen + 1)
\* 43 characters: one more digit, a trailing blank, a leading blank
AddrLong == Append(AddrLower, "1")
AddrTrailingBlank == Append(AddrLower, " ")
AddrLeadingBlank == <<" ">> \o AddrLower
\* 42 characters with another prefix
AddrUpperPrefix == <<"0", "X">> \o SubSeq(AddrLower, 3, AddressHexLen + 2)
AddrNoPrefix == <<"a", "b">> \o SubSeq(AddrLower, 3, AddressHexLen + 2)
\* 42 characters, one of them no hexadecimal digit
AddrNonHexFirst == Addr("g", "b", "1")
AddrNonHexUpper == Addr("a", "G", "1")
AddrNonHexLast == Append(SubSeq(AddrLower, 1, AddressHexLen + 1), "z")
AddrBlankInside == Addr("a", " ", "1")
\* nothing, and the prefix alone
AddrEmpty == <<>>
AddrPrefixOnly == <<"0", "x">>
\* another address, upper-case digits throughout
AddrUpper == Addr("A", "B", "F")

\* the address strings callers send: one address in two spellings, and
\* strings that are no address
AddressSamples ==
  {AddrMixed, AddrLower,
   AddrShort, AddrLong, AddrTrailingBlank, AddrLeadingBlank, AddrUpperPrefix,
   AddrNoPrefix, AddrNonHexFirst, AddrNonHexUpper, AddrNonHexLast,
   AddrBlankInside, AddrEmpty, AddrPrefixOnly}

----------------------------------------------------------------------------
(* Chain registry and configuration *)

\* chainIdToKey: the supported chain ids and the name of each one's API key
chainIdToKey ==
  [c \in {1, 8453, 42161, 137, 11155111, 84532} |->
     CASE c = 1 -> "ALCHEMY_KEY_ETH"
       [] c = 8453 -> "ALCHEMY_KEY_BASE"
       [] c = 42161 -> "ALCHEMY_KEY_ARB"
       [] c = 137 -> "ALCHEMY_KEY_POLY"
       [] c = 11155111 -> "ALCHEMY_KEY_SEPOLIA"
       [] c = 84532 -> "ALCHEMY_KEY_BASE_SEPOLIA"]

\* chainIdToNetwork: the network slug of each supported chain
chainIdToNetwork ==
  [c \in {1, 8453, 42161, 137, 11155111, 84532} |->
     CASE c = 1 -> "eth-mainnet"
       [] c = 8453 -> "base-mainnet"
       [] c = 42161 -> "arb-mainnet"
       [] c = 137 -> "polygon-mainnet"
       [] c = 11155111 -> "eth-sepolia"
       [] c = 84532 -> "base-sepolia"]

\* !this.chainIdToKey[chainId]
isSupportedChain(chainId) == chainId \in DOMAIN chainIdToKey

\* getAlchemyUrl: [ok, url] or [ok = FALSE, message]
getAlchemyUrl(chainId, cfg) ==
  IF ~isSupportedChain(chainId)
    THEN [ok |-> FALSE, message |-> "Unsupported chainId"]
  ELSE IF chainIdToKey[chainId] \notin cfg.keys
    THEN [ok |-> FALSE, message |-> "Alchemy API key not configured"]
  ELSE [ok |-> TRUE, url |-> <<chainIdToNetwork[chainId], chainIdToKey[chainId]>>]

\* the page size used when neither the request nor the configuration gives one
DefaultPageSize == 100

\* validatePageSize: [ok, size] or [ok = FALSE, message]; size is a Num or NaN.
\* cfg.maxPageSize = 0 stands for an unset (or zero) TX_HISTORY_MAX_PAGE_SIZE.
validatePageSize(pageSize, cfg) ==
  LET maxPageSize == IF cfg.maxPageSize = 0 THEN DefaultPageSize ELSE cfg.maxPageSize
  IN  IF pageSize = Undef
        THEN [ok |-> TRUE, size |-> Num(Min(DefaultPageSize, maxPageSize))]
      ELSE IF pageSize = NaN
        \* typeof NaN is "number" and NaN < 1 is false; Math.min(NaN, max) is NaN
        THEN [ok |-> TRUE, size |-> NaN]
      ELSE IF pageSize.v < 1
        THEN [ok |-> FALSE, message |-> "pageSize must be a positive number"]
      ELSE [ok |-> TRUE, size |-> Num(Min(pageSize.v, maxPageSize))]

----------------------------------------------------------------------------
(* Upstream transfers and their normalisation *)

\* transaction hashes the upstream reports
Hashes == {"h1", "h2"}

\* metadata.blockTimestamp as an instant; NoTimestamp when the metadata is absent
NoTimestamp == 0

\* instants new Date() can yield while a batch is normalised: the same as the
\* latest block timestamp, or later
NowValues == {2, 3}

\* one raw AlchemyTransfer, as far as the pipeline reads it
Transfer(h, ts) == [hash |-> h, blockTimestamp |-> ts]

\* the transfers the upstream reports: h1 and h2 in the same block, and h2
\* without block metadata
Transfers == {Transfer("h1", 2), Transfer("h2", 2), Transfer("h2", NoTimestamp)}

\* the transfers lists an upstream response can carry
Batches == SeqUpTo(Transfers, MaxBatch)

\* normalizeTransfer, as far as the pipeline reads the item: hash, chain and
\* timestamp (the other fields are functions of the transfer and the address
\* alone).  now is the instant new Date() yields.
normalizeTransfer(transfer, chainId, address, now) ==
  [hash |-> transfer.hash,
   chainId |-> chainId,
   timestamp |-> IF transfer.blockTimestamp # NoTimestamp
                   THEN transfer.blockTimestamp ELSE now]

\* the instants new Date() can yield for a batch: it is read only for a
\* transfer without block metadata
nowsFor(transfers) ==
  IF \E i \in 1..Len(transfers) : transfers[i].blockTimestamp = NoTimestamp
    THEN NowValues ELSE {NoTimestamp}

\* alchemyData.transfers.map((transfer) => this.normalizeTransfer(...))
normalizeAll(transfers, chainId, address, now) ==
  [i \in 1..Len(transfers) |-> normalizeTransfer(transfers[i], chainId, address, now)]

----------------------------------------------------------------------------
(* Merge, dedup, sort, truncate *)

hashesOf(items) == [i \in 1..Len(items) |-> items[i].hash]

\* the keys of new Map(entries) in iteration order: each key at its first insertion
RECURSIVE mapKeys(_)
mapKeys(hs) ==
  IF hs = <<>> THEN <<>>
  ELSE LET front == SubSeq(hs, 1, Len(hs) - 1)
           last == hs[Len(hs)]
       IN  IF last \in Range(front) THEN mapKeys(front) ELSE Append(mapKeys(front), last)

\* variant: no deduplication
dedupByHash_keepsAll(items) == items

\* Array.from(new Map(items.map((item) => [item.hash, item])).values()):
\* one item per hash, at the position of the hash's first occurrence, holding
\* the item of its last occurrence
dedupByHash(items) ==
  LET keys == mapKeys(hashesOf(items))
      lastIndex(h) == CHOOSE i \in 1..Len(items) :
                        /\ items[i].hash = h
                        /\ \A j \in (i + 1)..Len(items) : items[j].hash # h
  IN  [k \in 1..Len(keys) |-> items[lastIndex(keys[k])]]

\* variant: the comparator's operands are swapped (ascending order)
compareItems_ascending(a, b) == a.timestamp - b.timestamp

\* the sort comparator: negative or zero keeps a before b
compareItems(a, b) == b.timestamp - a.timestamp

\* insert x behind every element the comparator does not put after it
RECURSIVE insertSorted(_, _)
insertSorted(sorted, x) ==
  IF sorted = <<>> THEN <<x>>
  ELSE IF compareItems(sorted[1], x) <= 0
         THEN <<sorted[1]>> \o insertSorted(Tail(sorted), x)
         ELSE <<x>> \o sorted

\* Array.prototype.sort with compareItems (a stable sort)
RECURSIVE sortItems(_)
sortItems(items) ==
  IF items = <<>> THEN <<>>
  ELSE insertSorted(sortItems(SubSeq(items, 1, Len(items) - 1)), items[Len(items)])

\* Array.prototype.slice(0, size)
slice(items, size) ==
  IF size = NaN THEN <<>>
  ELSE IF size.v >= 0 THEN SubSeq(items, 1, Min(size.v, Len(items)))
  ELSE SubSeq(items, 1, Max(Len(items) + size.v, 0))

\* variant: the page carries no cursor
buildResult_dropsCursor(items, validatedPageSize, alchemyData) ==
  [items |-> slice(sortItems(dedupByHash(items)), validatedPageSize),
   nextPageKey |-> Undefined]

\* the page built from the merged items and the inbound response (lines 422-433)
buildResult(items, validatedPageSize, alchemyData) ==
  [items |-> slice(sortItems(dedupByHash(items)), validatedPageSize),
   nextPageKey |-> alchemyData.pageKey]

----------------------------------------------------------------------------
(* Cache policy *)

\* a string is truthy unless it is undefined or empty
truthy(str) == str # Undefined /\ str # ""

\* the cache key `txh:${chainId}:${address}:${pageKey}` or `...:first`
cacheKeyOf(chainId, address, pageKey) ==
  <<chainId, address, IF truthy(pageKey) THEN pageKey ELSE "first">>

\* seconds an entry lives: 5 min for paginated, 1 min for first page
PaginatedTtlSeconds == 300
FirstPageTtlSeconds == 60

\* variant: every entry gets the first-page lifetime
cacheTtl_alwaysFirstPage(pageKey) == FirstPageTtlSeconds

\* const cacheTtl = pageKey ? 300 : 60
cacheTtl(pageKey) == IF truthy(pageKey) THEN PaginatedTtlSeconds ELSE FirstPageTtlSeconds

\* cacheManager.get: the stored value or nothing
cacheGet(c, key) == IF key \in DOMAIN c THEN Some(c[key].value) ELSE None

\* cacheManager.set(key, value, ttl)
cacheSet(c, key, value, ttl) ==
  [k \in DOMAIN c \cup {key} |-> IF k = key THEN [value |-> value, ttl |-> ttl] ELSE c[k]]

\* variant: the lookup result is never taken as a hit
isCacheHit_never(cached) == FALSE

\* if (cached): a stored page is an object and so truthy
isCacheHit(cached) == cached # None

----------------------------------------------------------------------------
(* Upstream queries and responses *)

\* Number.prototype.toString(16) of a non-negative integer, as characters
HexDigit(d) ==
  CASE d = 10 -> "a" [] d = 11 -> "b" [] d = 12 -> "c"
    [] d = 13 -> "d" [] d = 14 -> "e" [] d = 15 -> "f"
    [] d = 0 -> "0" [] d = 1 -> "1" [] d = 2 -> "2" [] d = 3 -> "3" [] d = 4 -> "4"
    [] d = 5 -> "5" [] d = 6 -> "6" [] d = 7 -> "7" [] d = 8 -> "8" [] d = 9 -> "9"

RECURSIVE toString16(_)
toString16(n) ==
  IF n < 16 THEN <<HexDigit(n)>> ELSE Append(toString16(n \div 16), HexDigit(n % 16))

\* maxCount: `0x${validatedPageSize.toString(16)}`
maxCountOf(size) ==
  IF size = NaN THEN <<"0", "x", "N", "a", "N">>
  ELSE IF size.v < 0 THEN <<"0", "x", "-">> \o toString16(0 - size.v)
  ELSE <<"0", "x">> \o toString16(size.v)

\* the category list sent when the caller names none
DefaultCategories == <<"external", "erc20", "erc721", "erc1155">>

\* alchemyParams of the inbound query (lines 295-316)
inboundParams(address, pageKey, validatedPageSize, fromBlock, categories) ==
  [fromBlock |-> IF truthy(fromBlock) THEN fromBlock ELSE "0x0",
   category |-> IF categories = Undefined THEN DefaultCategories ELSE categories,
   withMetadata |-> TRUE,
   excludeZeroValue |-> TRUE,
   maxCount |-> maxCountOf(validatedPageSize),
   order |-> "desc",
   toAddress |-> Some(toLowerCase(address)),
   fromAddress |-> None,
   pageKey |-> IF truthy(pageKey) THEN pageKey ELSE Undefined]

\* variant: toAddress is not deleted from the copied parameters
outboundParams_keepsToAddress(alchemyParams, addressLower) ==
  [alchemyParams EXCEPT !.fromAddress = Some(addressLower), !.pageKey = Undefined]

\* outboundParams (lines 373-376)
outboundParams(alchemyParams, addressLower) ==
  [alchemyParams EXCEPT !.toAddress = None,
                        !.fromAddress = Some(addressLower),
                        !.pageKey = Undefined]

\* if (!pageKey): the outbound query belongs to the first page only
wantsOutbound(pageKey) == ~truthy(pageKey)

\* What a fetch can come back as.  transport: fetch resolved or rejected;
\* ok: response.ok; json: whether response.json() parses; error: json.error is
\* set; result: json.result is set; list: result.transfers is an array, is
\* missing, or holds a record normalizeTransfer throws on.
Shape(transport, ok, json, error, result, list) ==
  [transport |-> transport, ok |-> ok, json |-> json, error |-> error,
   result |-> result, list |-> list]

ShapeOk == Shape("resolved", TRUE, "object", FALSE, "present", "array")
ShapeRejected == Shape("rejected", FALSE, "invalid", FALSE, "absent", "missing")
ShapeHttpError == Shape("resolved", FALSE, "object", FALSE, "present", "array")
ShapeInvalidJson == Shape("resolved", TRUE, "invalid", FALSE, "absent", "missing")
ShapeRpcError == Shape("resolved", TRUE, "object", TRUE, "absent", "missing")
ShapeRpcErrorWithResult == Shape("resolved", TRUE, "object", TRUE, "present", "array")
ShapeNoResult == Shape("resolved", TRUE, "object", FALSE, "absent", "missing")
ShapeNoList == Shape("resolved", TRUE, "object", FALSE, "present", "missing")
ShapeBadRecord == Shape("resolved", TRUE, "object", FALSE, "present", "badRecord")

FailureShapes ==
  {ShapeRejected, ShapeHttpError, ShapeInvalidJson, ShapeRpcError,
   ShapeRpcErrorWithResult, ShapeNoResult, ShapeNoList, ShapeBadRecord}

\* pagination cursors the upstream hands out, per direction
InboundCursors == {Undefined, "k1"}
OutboundCursors == {Undefined, "o1"}

\* the responses to a query: every batch and cursor when the response is
\* well-formed, and for each malformed shape a body with and without content
Responses(cursors) ==
  [shape : {ShapeOk}, transfers : Batches, pageKey : cursors]
    \cup [shape : FailureShapes, transfers : {<<>>, <<Transfer("h2", 2)>>},
          pageKey : {Undefined}]

InboundResponses == Responses(InboundCursors)
OutboundResponses == Responses(OutboundCursors)

\* variant: json.error is not looked at
inboundOutcome_ignoresRpcError(resp) ==
  IF resp.shape.transport = "rejected" THEN "Failed to fetch transaction history"
  ELSE IF ~resp.shape.ok THEN "Alchemy API HTTP error"
  ELSE IF resp.shape.json = "invalid" THEN "Alchemy API returned invalid JSON"
  ELSE IF resp.shape.result = "absent" \/ resp.shape.list # "array"
    THEN "Failed to fetch transaction history"
  ELSE "ok"

\* the inbound response as lines 318-369 take it: "ok", or the message of the
\* exception that leaves the try block
inboundOutcome(resp) ==
  IF resp.shape.transport = "rejected" THEN "Failed to fetch transaction history"
  ELSE IF ~resp.shape.ok THEN "Alchemy API HTTP error"
  ELSE IF resp.shape.json = "invalid" THEN "Alchemy API returned invalid JSON"
  ELSE IF resp.shape.error THEN "Alchemy API error"
  \* json.result undefined, or transfers no array, or a record that cannot be
  \* normalised: a TypeError, wrapped by the outer catch
  ELSE IF resp.shape.result = "absent" \/ resp.shape.list # "array"
    THEN "Failed to fetch transaction history"
  ELSE "ok"

\* whether lines 378-419 push the outbound items: every other case is logged
\* and suppressed
outboundUsable(resp) ==
  /\ resp.shape.transport = "resolved"
  /\ resp.shape.ok
  /\ resp.shape.json = "object"
  /\ ~resp.shape.error
  /\ resp.shape.result = "present"
  /\ resp.shape.list = "array"

----------------------------------------------------------------------------
(* Amounts: exact conversion of a raw amount to a decimal string.  A digit    *)
(* string is a sequence of one-character strings, most significant first.    *)

\* the value of one hexadecimal digit of either case
hexValue(c) == CHOOSE d \in 0..15 : HexDigit(d) = lowerChar(c)

\* digits * m + carry on a number held as decimal digit values, least
\* significant first
RECURSIVE mulAdd(_, _, _)
mulAdd(digits, m, carry) ==
  IF digits = <<>>
    THEN IF carry = 0 THEN <<>> ELSE <<carry % 10>> \o mulAdd(<<>>, m, carry \div 10)
    ELSE LET v == digits[1] * m + carry
         IN  <<v % 10>> \o mulAdd(Tail(digits), m, v \div 10)

\* the hexadecimal digits hs read as a number, as decimal digit values, least
\* significant first; zero is the empty sequence
RECURSIVE fromHexDigits(_)
fromHexDigits(hs) ==
  IF hs = <<>> THEN <<>>
  ELSE mulAdd(fromHexDigits(SubSeq(hs, 1, Len(hs) - 1)), 16, hexValue(hs[Len(hs)]))

\* BigInt("0x...").toString(): the decimal digit string of the hex literal
bigIntToString(hex) ==
  LET le == fromHexDigits(SubSeq(hex, 3, Len(hex)))
  IN  IF le = <<>> THEN <<"0">>
      ELSE [i \in 1..Len(le) |-> HexDigit(le[Len(le) + 1 - i])]

\* parseInt(str, 16) of a 0x-prefixed literal
RECURSIVE parseHexDigits(_)
parseHexDigits(hs) ==
  IF hs = <<>> THEN 0
  ELSE parseHexDigits(SubSeq(hs, 1, Len(hs) - 1)) * 16 + hexValue(hs[Len(hs)])

parseInt16(hex) == parseHexDigits(SubSeq(hex, 3, Len(hex)))

\* String.prototype.padStart(targetLength, "0")
padStart(str, targetLength) ==
  IF Len(str) >= targetLength THEN str
  ELSE [i \in 1..(targetLength - Len(str)) |-> "0"] \o str

\* whether the suffix of str from position i on matches \.?0+$
matchesDotZerosAt(str, i) ==
  LET zerosFrom(j) == j <= Len(str) /\ \A k \in j..Len(str) : str[k] = "0"
  IN  \/ zerosFrom(i)
      \/ str[i] = "." /\ zerosFrom(i + 1)

\* variant: the pattern is [.0]+$, so zeros before the point go as well
stripTrailingZeros_pointOrZeros(str) ==
  LET starts == {i \in 1..Len(str) : \A k \in i..Len(str) : str[k] \in {".", "0"}}
  IN  IF starts = {} THEN str
      ELSE SubSeq(str, 1, (CHOOSE i \in starts : \A j \in starts : i <= j) - 1)

\* value.replace(/\.?0+$/, ""): the leftmost match is removed
stripTrailingZeros(str) ==
  LET starts == {i \in 1..Len(str) : matchesDotZerosAt(str, i)}
  IN  IF starts = {} THEN str
      ELSE SubSeq(str, 1, (CHOOSE i \in starts : \A j \in starts : i <= j) - 1)

\* if (value === "" || value === ".") value = "0"
zeroIfEmpty(str) == IF str = <<>> \/ str = <<".">> THEN <<"0">> ELSE str

\* the conversion of lines 161-176 and 199-216: the decimal digit string
\* rawValueStr with the point set decimals places from the right
convertRawValue(rawValueStr, decimals) ==
  IF rawValueStr = <<"0">> THEN <<"0">>
  ELSE LET padded == padStart(rawValueStr, decimals + 1)
           splitIndex == Len(padded) - decimals
           head == SubSeq(padded, 1, splitIndex)
           integerPart == IF head = <<>> THEN <<"0">> ELSE head
           fractionalPart == SubSeq(padded, splitIndex + 1, Len(padded))
       IN  zeroIfEmpty(stripTrailingZeros(integerPart \o <<".">> \o fractionalPart))

\* the decimals of a native amount
NativeDecimals == 18

\* an upstream number, held in hundredths: Number.prototype.toString()
\* prints the integer part and the fraction digits that are needed
RECURSIVE natToString(_)
natToString(n) ==
  IF n < 10 THEN <<HexDigit(n)>> ELSE Append(natToString(n \div 10), HexDigit(n % 10))

numberToString(hundredths) ==
  LET whole == natToString(hundredths \div 100)
      tenths == (hundredths % 100) \div 10
      units == hundredths % 10
  IN  IF hundredths % 100 = 0 THEN whole
      ELSE IF units = 0 THEN whole \o <<".", HexDigit(tenths)>>
      ELSE whole \o <<".", HexDigit(tenths), HexDigit(units)>>

\* one raw AlchemyTransfer, as far as normalizeTransfer reads it for the
\* direction, the addresses and the value.  value is the upstream number in
\* hundredths, or Undef; rawValue, rawDecimal and tokenId are
\* rawContract.value, rawContract.decimal and tokenId, the empty string
\* standing for an absent one as well (both are falsy).
RawTransfer(category, from, to, value, rawValue, rawDecimal, tokenId) ==
  [category |-> category, from |-> from, to |-> to, value |-> value,
   rawValue |-> rawValue, rawDecimal |-> rawDecimal, tokenId |-> tokenId]

\* the value of the item (lines 150-228)
normalizeValue(transfer) ==
  IF transfer.category = "external"
    THEN IF transfer.rawValue # <<>>
           THEN convertRawValue(bigIntToString(transfer.rawValue), NativeDecimals)
         ELSE IF transfer.value # Undef /\ transfer.value # Num(0)
           THEN zeroIfEmpty(stripTrailingZeros(numberToString(transfer.value.v)))
         ELSE <<"0">>
  ELSE IF transfer.category = "erc20"
    THEN LET decimals == IF transfer.rawDecimal # <<>>
                           THEN parseInt16(transfer.rawDecimal) ELSE NativeDecimals
             rawValueStr == IF transfer.rawValue # <<>>
                              THEN bigIntToString(transfer.rawValue) ELSE <<"0">>
         IN  convertRawValue(rawValueStr, decimals)
  ELSE IF transfer.tokenId # <<>>
    THEN transfer.tokenId ELSE <<"1">>

\* variant: the addresses are compared as they are written
determineDirection_caseSensitive(from, to, address) ==
  IF from = address /\ to = address THEN "self"
  ELSE IF from = address THEN "out"
  ELSE IF to = address THEN "in"
  ELSE "unknown"

\* determineDirection (lines 118-137)
determineDirection(from, to, address) ==
  LET fromLower == toLowerCase(from)
      toLower == toLowerCase(to)
      addressLower == toLowerCase(address)
  IN  IF fromLower = addressLower /\ toLower = addressLower THEN "self"
      ELSE IF fromLower = addressLower THEN "out"
      ELSE IF toLower = addressLower THEN "in"
      ELSE "unknown"

\* the fields of normalizeTransfer's item that the transfer and the target
\* address determine (lines 144-148, 234-250)
normalizeItem(transfer, address) ==
  [direction |-> determineDirection(transfer.from, transfer.to, address),
   assetType |-> IF transfer.category = "external" THEN "native" ELSE transfer.category,
   from |-> toLowerCase(transfer.from),
   to |-> toLowerCase(transfer.to),
   value |-> normalizeValue(transfer)]

----------------------------------------------------------------------------
(* The pipeline instances *)

\* variant: the address is validated before the chain id
validateInputs_addressFirst(chainId, address, pageSize, cfg) ==
  IF validateAddress(address) # "ok" THEN validateAddress(address)
  ELSE IF ~isSupportedChain(chainId) THEN "Unsupported chainId"
  ELSE IF ~validatePageSize(pageSize, cfg).ok THEN validatePageSize(pageSize, cfg).message
  ELSE "ok"

\* validation at the head of getTransactionHistory (lines 263-269): "ok" or
\* the message of the first check that fails
validateInputs(chainId, address, pageSize, cfg) ==
  IF ~isSupportedChain(chainId) THEN "Unsupported chainId"
  ELSE IF validateAddress(address) # "ok" THEN validateAddress(address)
  ELSE IF ~validatePageSize(pageSize, cfg).ok THEN validatePageSize(pageSize, cfg).message
  ELSE "ok"

IdleCall ==
  [pc |-> "idle", chainId |-> 0, address |-> <<>>, pageKey |-> Undefined,
   pageSize |-> Undef, fromBlock |-> Undefined, categories |-> Undefined,
   validatedPageSize |-> Undef, cacheKey |-> <<>>, cached |-> None,
   items |-> <<>>, alchemyData |-> None, result |-> None, error |-> ""]

\* some hash occurs more than once among the fetched items
hasRepeatedHash(items) ==
  \E i, j \in 1..Len(items) : i < j /\ items[i].hash = items[j].hash

IdleIo ==
  [sent |-> <<>>, gets |-> 0, sets |-> 0, stored |-> FALSE,
   inbound |-> None, outbound |-> None, repeated |-> FALSE, fetchOrder |-> <<>>]

\* what a response looked like to the call that received it
Seen(resp) == Some([shape |-> resp.shape, pageKey |-> resp.pageKey])

\* the requests callers make
Inputs ==
  [chainId : {1, 11155111, 999},
   address : {AddrMixed, AddrShort},
   pageKey : {Undefined, "", "k1"},
   pageSize : {Undef, Num(0), Num(1)},
   fromBlock : {Undefined},
   categories : {Undefined}]

\* getTransactionHistory up to its first await: validate, compute the cache
\* key, ask the cache (lines 253-285)
GetTransactionHistory(r, in) ==
  /\ call[r].pc = "idle"
  /\ ncalls < MaxCalls
  /\ ncalls' = ncalls + 1
  /\ LET v == validateInputs(in.chainId, in.address, in.pageSize, config)
         args == [IdleCall EXCEPT !.chainId = in.chainId, !.address = in.address,
                                  !.pageKey = in.pageKey, !.pageSize = in.pageSize,
                                  !.fromBlock = in.fromBlock,
                                  !.categories = in.categories]
     IN  IF v # "ok"
           THEN /\ call' = [call EXCEPT ![r] = [args EXCEPT !.pc = "error", !.error = v]]
                /\ io' = [io EXCEPT ![r] = IdleIo]
           ELSE /\ call' = [call EXCEPT ![r] =
                     [args EXCEPT !.pc = "cache-lookup",
                                  !.validatedPageSize = validatePageSize(in.pageSize, config).size,
                                  !.cacheKey = cacheKeyOf(in.chainId, in.address, in.pageKey)]]
                /\ io' = [io EXCEPT ![r] = [IdleIo EXCEPT !.gets = 1]]
  /\ UNCHANGED <<config, cache>>

\* the cache answers (lines 285-329): a hit returns the stored page; a miss
\* resolves the endpoint and sends the inbound query
CacheLookup(r) ==
  /\ call[r].pc = "cache-lookup"
  /\ LET c == call[r]
         cached == cacheGet(cache, c.cacheKey)
         url == getAlchemyUrl(c.chainId, config)
     IN  IF isCacheHit(cached)
           THEN /\ call' = [call EXCEPT ![r].pc = "done", ![r].cached = cached,
                                        ![r].result = cached]
                /\ io' = io
         ELSE IF ~url.ok
           THEN /\ call' = [call EXCEPT ![r].pc = "error", ![r].error = url.message]
                /\ io' = io
         ELSE /\ call' = [call EXCEPT ![r].pc = "fetching"]
              /\ io' = [io EXCEPT ![r].sent = Append(@,
                          inboundParams(c.address, c.pageKey, c.validatedPageSize,
                                        c.fromBlock, c.categories))]
  /\ UNCHANGED <<config, cache, ncalls>>

\* the call moves on to the cache write with the page built from items
StartCaching(c, items) ==
  [c EXCEPT !.pc = "caching", !.items = <<>>,
            !.result = Some(buildResult(items, c.validatedPageSize, c.alchemyData[1]))]

\* lines 331-388, and 422-437 for a later page, on the inbound response resp
\* with new Date() yielding now
InboundArrives(r, resp, now) ==
  LET c == call[r]
      outcome == inboundOutcome(resp)
      items == normalizeAll(resp.transfers, c.chainId, c.address, now)
      got == [c EXCEPT !.alchemyData = Some([pageKey |-> resp.pageKey]), !.items = items]
      seen == [io[r] EXCEPT !.inbound = Seen(resp)]
  IN  IF outcome # "ok"
        THEN /\ call' = [call EXCEPT ![r].pc = "error", ![r].error = outcome]
             /\ io' = [io EXCEPT ![r] = seen]
      ELSE IF wantsOutbound(c.pageKey)
        THEN /\ call' = [call EXCEPT ![r] = [got EXCEPT !.pc = "fetching-outbound"]]
             /\ io' = [io EXCEPT ![r] =
                  [seen EXCEPT !.repeated = hasRepeatedHash(items),
                               !.fetchOrder = mapKeys(hashesOf(items)),
                               !.sent = Append(@,
                                  outboundParams(io[r].sent[1], toLowerCase(c.address)))]]
      ELSE /\ call' = [call EXCEPT ![r] = StartCaching(got, items)]
           /\ io' = [io EXCEPT ![r] =
                [seen EXCEPT !.repeated = hasRepeatedHash(items),
                             !.fetchOrder = mapKeys(hashesOf(items)),
                             !.sets = @ + 1]]

\* the inbound response arrives (lines 331-388, and 422-437 for a later page)
InboundResponse(r) ==
  /\ call[r].pc = "fetching"
  /\ \E resp \in InboundResponses : \E now \in nowsFor(resp.transfers) :
       InboundArrives(r, resp, now)
  /\ UNCHANGED <<config, cache, ncalls>>

\* lines 390-437 on the outbound response resp with new Date() yielding now
OutboundArrives(r, resp, now) ==
  LET c == call[r]
      outboundItems == normalizeAll(resp.transfers, c.chainId, c.address, now)
      items == IF outboundUsable(resp) THEN c.items \o outboundItems ELSE c.items
  IN  /\ call' = [call EXCEPT ![r] = StartCaching(c, items)]
      /\ io' = [io EXCEPT ![r] =
           [@ EXCEPT !.outbound = Seen(resp),
                     !.repeated = hasRepeatedHash(items),
                     !.fetchOrder = mapKeys(hashesOf(items)),
                     !.sets = @ + 1]]

\* the outbound response arrives (lines 390-437): its items are merged when it
\* is usable, and the page is built and handed to the cache
OutboundResponse(r) ==
  /\ call[r].pc = "fetching-outbound"
  /\ \E resp \in OutboundResponses : \E now \in nowsFor(resp.transfers) :
       OutboundArrives(r, resp, now)
  /\ UNCHANGED <<config, cache, ncalls>>

\* cacheManager.set settles (lines 437-456): stored, or its rejection reaches
\* the outer catch and is thrown on
CacheStore(r) ==
  /\ call[r].pc = "caching"
  /\ \/ /\ cache' = cacheSet(cache, call[r].cacheKey, call[r].result[1],
                             cacheTtl(call[r].pageKey) * 1000)
        /\ call' = [call EXCEPT ![r].pc = "done"]
        /\ io' = [io EXCEPT ![r].stored = TRUE]
     \/ /\ call' = [call EXCEPT ![r].pc = "error",
                                ![r].error = "Failed to fetch transaction history"]
        /\ UNCHANGED <<cache, io>>
  /\ UNCHANGED <<config, ncalls>>

\* the response (or the exception) has gone to the caller; the instance ends
Return(r) ==
  /\ call[r].pc \in {"done", "error"}
  /\ call' = [call EXCEPT ![r] = IdleCall]
  /\ io' = [io EXCEPT ![r] = IdleIo]
  /\ UNCHANGED <<config, cache, ncalls>>

\* an entry's TTL runs out, or the store evicts it
Expire(key) ==
  /\ key \in DOMAIN cache
  /\ cache' = [k \in DOMAIN cache \ {key} |-> cache[k]]
  /\ UNCHANGED <<config, call, io, ncalls>>

\* TX_HISTORY_MAX_PAGE_SIZE as deployed: unset
MaxPageSizeSettings == {0}

\* the API keys of the documented setup: the four main networks, not the
\* test networks
ConfiguredKeys ==
  {"ALCHEMY_KEY_ETH", "ALCHEMY_KEY_BASE", "ALCHEMY_KEY_ARB", "ALCHEMY_KEY_POLY"}

\* one pipeline instance at a time, an empty cache
Init ==
  /\ config \in [maxPageSize : MaxPageSizeSettings, keys : {ConfiguredKeys}]
  /\ cache = <<>>
  /\ call = [r \in {1} |-> IdleCall]
  /\ io = [r \in {1} |-> IdleIo]
  /\ ncalls = 0

Next ==
  \/ \E r \in DOMAIN call, in \in Inputs : GetTransactionHistory(r, in)
  \/ \E r \in DOMAIN call : CacheLookup(r)
  \/ \E r \in DOMAIN call : InboundResponse(r)
  \/ \E r \in DOMAIN call : OutboundResponse(r)
  \/ \E r \in DOMAIN call : CacheStore(r)
  \/ \E r \in DOMAIN call : Return(r)
  \/ \E key \in DOMAIN cache : Expire(key)

Spec == Init /\ [][Next]_vars

\* requests for one chain's first page that differ in the address string only
AddressInputs ==
  [chainId : {1},
   address : AddressSamples,
   pageKey : {Undefined},
   pageSize : {Undef},
   fromBlock : {Undefined},
   categories : {Undefined}]

NextAddress ==
  \/ \E r \in DOMAIN call, in \in AddressInputs : GetTransactionHistory(r, in)
  \/ \E r \in DOMAIN call : CacheLookup(r)
  \/ \E r \in DOMAIN call : InboundResponse(r)
  \/ \E r \in DOMAIN call : OutboundResponse(r)
  \/ \E r \in DOMAIN call : CacheStore(r)
  \/ \E r \in DOMAIN call : Return(r)
  \/ \E key \in DOMAIN cache : Expire(key)

\* the pipeline under requests that vary the address
SpecAddress == Init /\ [][NextAddress]_vars

\* requests for one address that differ in the pageKey only: none, an
\* upstream cursor, and the string "first"
PageKeyInputs ==
  [chainId : {1},
   address : {AddrLower},
   pageKey : {Undefined, "k1", "first"},
   pageSize : {Undef},
   fromBlock : {Undefined},
   categories : {Undefined}]

NextPageKey ==
  \/ \E r \in DOMAIN call, in \in PageKeyInputs : GetTransactionHistory(r, in)
  \/ \E r \in DOMAIN call : CacheLookup(r)
  \/ \E r \in DOMAIN call : InboundResponse(r)
  \/ \E r \in DOMAIN call : OutboundResponse(r)
  \/ \E r \in DOMAIN call : CacheStore(r)
  \/ \E r \in DOMAIN call : Return(r)
  \/ \E key \in DOMAIN cache : Expire(key)

\* the pipeline under requests that vary the pageKey
SpecPageKey == Init /\ [][NextPageKey]_vars

----------------------------------------------------------------------------
(* Two pipeline instances at once against an upstream whose history does    *)
(* not change: the answer to a query is a function of the query.            *)

\* the transfers each network's upstream holds, newest first, per direction:
\* on chain 1 every transfer carries block metadata, on chain 8453 one does
\* not
Ledger(chainId) ==
  IF chainId = 1
    THEN [inbound |-> <<Transfer("h1", 2), Transfer("h2", 2)>>,
          outbound |-> <<Transfer("h2", 2)>>]
    ELSE [inbound |-> <<Transfer("h1", 2), Transfer("h2", NoTimestamp)>>,
          outbound |-> <<>>]

\* the answer of the network's upstream to a query without cursor: the
\* newest maxCount transfers of the queried direction, and a cursor when
\* more remain
upstreamAnswer(chainId, params) ==
  LET all == IF params.toAddress # None
               THEN Ledger(chainId).inbound ELSE Ledger(chainId).outbound
      maxCount == parseInt16(params.maxCount)
  IN  [shape |-> ShapeOk,
       transfers |-> SubSeq(all, 1, Min(maxCount, Len(all))),
       pageKey |-> IF Len(all) > maxCount THEN "k1" ELSE Undefined]

\* first-page requests for one address that differ in the page size, on two
\* networks
RaceInputs ==
  [chainId : {1, 8453},
   address : {AddrLower},
   pageKey : {Undefined},
   pageSize : {Undef, Num(1)},
   fromBlock : {Undefined},
   categories : {Undefined}]

\* the upstream answers the inbound query of r
UpstreamInbound(r) ==
  /\ call[r].pc = "fetching"
  /\ LET resp == upstreamAnswer(call[r].chainId, io[r].sent[1])
     IN  \E now \in nowsFor(resp.transfers) : InboundArrives(r, resp, now)
  /\ UNCHANGED <<config, cache, ncalls>>

\* the upstream answers the outbound query of r
UpstreamOutbound(r) ==
  /\ call[r].pc = "fetching-outbound"
  /\ LET resp == upstreamAnswer(call[r].chainId, io[r].sent[2])
     IN  \E now \in nowsFor(resp.transfers) : OutboundArrives(r, resp, now)
  /\ UNCHANGED <<config, cache, ncalls>>

\* two pipeline instances, an empty cache
InitRace ==
  /\ config \in [maxPageSize : MaxPageSizeSettings, keys : {ConfiguredKeys}]
  /\ cache = <<>>
  /\ call = [r \in {1, 2} |-> IdleCall]
  /\ io = [r \in {1, 2} |-> IdleIo]
  /\ ncalls = 0

NextRace ==
  \/ \E r \in DOMAIN call, in \in RaceInputs : GetTransactionHistory(r, in)
  \/ \E r \in DOMAIN call : CacheLookup(r)
  \/ \E r \in DOMAIN call : UpstreamInbound(r)
  \/ \E r \in DOMAIN call : UpstreamOutbound(r)
  \/ \E r \in DOMAIN call : CacheStore(r)
  \/ \E r \in DOMAIN call : Return(r)
  \/ \E key \in DOMAIN cache : Expire(key)

SpecRace == InitRace /\ [][NextRace]_vars

----------------------------------------------------------------------------
(* The helper functions on their own: one invocation of normalizeTransfer   *)
(* or of validatePageSize per behaviour.  call[r] holds the function, its   *)
(* arguments and, once it has returned, its result.                         *)

\* most hexadecimal digits of a generated raw amount
MaxHexDigits == 2
\* largest generated decimals count
MaxDecimals == 3
\* largest generated requested page size and configured maximum
MaxRequested == 3
MaxConfigured == 3

\* the 0x literal of the hexadecimal digits hs
HexLiteral(hs) == <<"0", "x">> \o hs

\* raw amounts: every literal of up to MaxHexDigits digits out of 0, 1, a
\* and F, and 100, 1000, 1500, 1500000 and 10^18
RawValueSamples ==
  {HexLiteral(hs) : hs \in UNION {[1..n -> {"0", "1", "a", "F"}] : n \in 1..MaxHexDigits}}
    \cup {HexLiteral(<<"6", "4">>), HexLiteral(<<"3", "e", "8">>),
          HexLiteral(<<"5", "d", "c">>),
          HexLiteral(<<"1", "6", "e", "3", "6", "0">>),
          HexLiteral(<<"d", "e", "0", "b", "6", "b", "3", "a", "7", "6", "4", "0", "0", "0", "0">>)}

\* rawContract.decimal: absent, 0 to MaxDecimals, 6 and 18
RawDecimalSamples ==
  {<<>>} \cup {HexLiteral(toString16(d)) : d \in (0..MaxDecimals) \cup {6, 18}}

\* upstream decimal values in hundredths: absent, 0, 0.05, 0.5, 1, 1.5, 10,
\* 12.34, 100, 100.5 and 2000
UpstreamValueSamples ==
  {Undef} \cup {Num(n) : n \in {0, 5, 50, 100, 150, 1000, 1234, 10000, 10050, 200000}}

\* the transfers normalizeTransfer is called on: amounts of every kind
\* between two fixed parties, and every pairing of parties with one amount
NormalizeArgs ==
  [transfer : {RawTransfer("erc20", AddrUpper, AddrLower, Undef, v, d, <<>>) :
                 v \in RawValueSamples \cup {<<>>}, d \in RawDecimalSamples}
              \cup {RawTransfer("external", AddrUpper, AddrLower, n, v, <<>>, <<>>) :
                 v \in RawValueSamples \cup {<<>>}, n \in UpstreamValueSamples}
              \cup {RawTransfer("erc721", AddrUpper, AddrLower, Undef, <<>>, <<>>, t) :
                 t \in {<<>>, <<"7">>}},
   address : {AddrLower}]
    \cup
  [transfer : {RawTransfer("external", f, t, Num(150), <<>>, <<>>, <<>>) :
                 f \in {AddrMixed, AddrLower, AddrUpper},
                 t \in {AddrMixed, AddrLower, AddrUpper}},
   address : {AddrMixed, AddrLower, AddrUpper}]

\* the page sizes validatePageSize is called on
PageSizeArgs ==
  [pageSize : {Undef, NaN} \cup {Num(n) : n \in (-1..MaxRequested) \cup {99, 100, 101}}]

\* TX_HISTORY_MAX_PAGE_SIZE: unset or zero (0), negative, small, and around
\* the default
PageSizeSettings == (-1..MaxConfigured) \cup {99, 100, 101}

Invocation(fn, args) == [fn |-> fn, pc |-> "called", args |-> args, out |-> None]

InitFunctions ==
  /\ cache = <<>>
  /\ io = [r \in {1} |-> IdleIo]
  /\ ncalls = 0
  /\ \/ /\ config \in [maxPageSize : MaxPageSizeSettings, keys : {ConfiguredKeys}]
        /\ call \in [{1} -> {Invocation("normalizeTransfer", a) : a \in NormalizeArgs}]
     \/ /\ config \in [maxPageSize : PageSizeSettings, keys : {ConfiguredKeys}]
        /\ call \in [{1} -> {Invocation("validatePageSize", a) : a \in PageSizeArgs}]

\* normalizeTransfer returns the item
NormalizeTransfer(r) ==
  /\ call[r].fn = "normalizeTransfer"
  /\ call[r].pc = "called"
  /\ call' = [call EXCEPT ![r].pc = "returned",
                          ![r].out = Some(normalizeItem(call[r].args.transfer,
                                                        call[r].args.address))]
  /\ UNCHANGED <<config, cache, io, ncalls>>

\* validatePageSize returns the size or throws
ValidatePageSize(r) ==
  /\ call[r].fn = "validatePageSize"
  /\ call[r].pc = "called"
  /\ call' = [call EXCEPT ![r].pc = "returned",
                          ![r].out = Some(validatePageSize(call[r].args.pageSize, config))]
  /\ UNCHANGED <<config, cache, io, ncalls>>

NextFunctions ==
  \/ \E r \in DOMAIN call : NormalizeTransfer(r)
  \/ \E r \in DOMAIN call : ValidatePageSize(r)

SpecFunctions == InitFunctions /\ [][NextFunctions]_vars

----------------------------------------------------------------------------
(* Properties *)

Calls == DOMAIN call

\* a response the code can take transfers from: fetch resolved with a success
\* status, a parseable body, no error envelope and a transfers array
WellFormed(shape) ==
  /\ shape.transport = "resolved" /\ shape.ok /\ shape.json = "object"
  /\ ~shape.error /\ shape.result = "present" /\ shape.list = "array"

InboundAnswered(r) == io[r].inbound # None
InboundSucceeded(r) == InboundAnswered(r) /\ WellFormed(io[r].inbound[1].shape)
InboundFailed(r) == InboundAnswered(r) /\ ~WellFormed(io[r].inbound[1].shape)
OutboundAnswered(r) == io[r].outbound # None
OutboundFailed(r) == OutboundAnswered(r) /\ ~WellFormed(io[r].outbound[1].shape)

\* the call's cache lookup came back empty
Missed(r) == io[r].gets = 1 /\ call[r].pc # "cache-lookup" /\ call[r].cached = None

\* the call holds a page it computed itself
Fresh(r) == call[r].result # None /\ call[r].cached = None

\* the pages held by the cache
CachedPages == {cache[k].value : k \in DOMAIN cache}

\* the pages calls have computed or been served
CallPages == {call[r].result[1] : r \in {q \in Calls : call[q].result # None}}

UniqueByHash(items) ==
  \A i, j \in 1..Len(items) : items[i].hash = items[j].hash => i = j

SortedDescending(items) ==
  \A i, j \in 1..Len(items) : i < j => items[i].timestamp >= items[j].timestamp

\* position of hash h in the sequence hs of distinct hashes
PositionIn(hs, h) == CHOOSE i \in 1..Len(hs) : hs[i] = h

\* C1: every successfully returned page, fresh or served from the cache,
\* holds at most as many items as that call's clamped page size.
C1_PageWithinClampedSize ==
  \A r \in Calls :
    call[r].pc = "done" =>
      /\ call[r].validatedPageSize.t = "num"
      /\ Len(call[r].result[1].items) <= call[r].validatedPageSize.v

\* C2: when the cache holds an entry for the call's key at the lookup, the
\* call ends there with exactly the stored page, having sent no upstream
\* query and made no cache write, and the cache is as it was.
C2_CacheHitShortCircuits ==
  [][\A r \in Calls :
       (/\ call[r].pc = "cache-lookup"
        /\ call'[r].pc # "cache-lookup"
        /\ call[r].cacheKey \in DOMAIN cache)
       => /\ call'[r].pc = "done"
          /\ call'[r].result = Some(cache[call[r].cacheKey].value)
          /\ io'[r].sent = <<>>
          /\ io'[r].sets = 0
          /\ cache' = cache]_vars

\* a second call was served a non-empty page from the cache
C2_Witness ==
  \E r \in Calls :
    /\ call[r].pc = "done"
    /\ call[r].cached # None
    /\ call[r].result = call[r].cached
    /\ Len(call[r].result[1].items) > 0
    /\ io[r].sent = <<>>

\* C3: a call whose chain id is not in the chain table is in the error state
\* with the unsupported-chain error and has sent no upstream query, read the
\* cache not once and written it not once.
C3_UnsupportedChainFailsFirst ==
  \A r \in Calls :
    (call[r].pc # "idle" /\ call[r].chainId \notin DOMAIN chainIdToKey)
    => /\ call[r].pc = "error"
       /\ call[r].error = "Unsupported chainId"
       /\ io[r].sent = <<>>
       /\ io[r].gets = 0
       /\ io[r].sets = 0
       /\ ~io[r].stored

\* an unsupported chain id, given together with a malformed address, was
\* rejected while the cache held an entry
C3_Witness ==
  \E r \in Calls :
    /\ call[r].pc = "error"
    /\ call[r].chainId = 999
    /\ call[r].address = AddrShort
    /\ call[r].error = "Unsupported chainId"
    /\ DOMAIN cache # {}

\* the queries of call r are an inbound one (toAddress the lowercased target,
\* no fromAddress, the pageKey when there is one) and, for a first page whose
\* inbound query succeeded, an outbound one (fromAddress the lowercased
\* target, no toAddress, no pageKey), and no other
QueriesAsClaimed(r) ==
  LET c == call[r]
      s == io[r].sent
      target == Some(toLowerCase(c.address))
      isInbound(q, pk) == q.toAddress = target /\ q.fromAddress = None /\ q.pageKey = pk
      isOutbound(q) == q.fromAddress = target /\ q.toAddress = None /\ q.pageKey = Undefined
  IN  IF truthy(c.pageKey)
        THEN Len(s) = 1 /\ isInbound(s[1], c.pageKey)
        ELSE /\ Len(s) >= 1
             /\ isInbound(s[1], Undefined)
             /\ IF InboundSucceeded(r)
                  THEN Len(s) = 2 /\ isOutbound(s[2])
                  ELSE Len(s) = 1

C5_OutboundFailureSuppressed ==
  [][\A r \in Calls :
       /\ (/\ call[r].pc = "fetching-outbound"
           /\ call'[r].pc # "fetching-outbound"
           /\ ~WellFormed(io'[r].outbound[1].shape))
          => /\ call'[r].pc = "caching"
             /\ call'[r].result =
                  Some(buildResult(call[r].items, call[r].validatedPageSize,
                                   call[r].alchemyData[1]))
       /\ (/\ call[r].pc = "caching"
           /\ call'[r].pc # "caching"
           /\ OutboundFailed(r))
          => /\ call'[r].pc = "done"
             /\ call'[r].result = call[r].result
             /\ cacheGet(cache', call[r].cacheKey) = call[r].result]_vars

\* the messages of the errors an inbound failure surfaces
UpstreamErrorMessages ==
  {"Failed to fetch transaction history", "Alchemy API HTTP error",
   "Alchemy API returned invalid JSON", "Alchemy API error"}

\* C6: a call whose inbound query failed in any way is in the error state
\* with an upstream error, holds no page, has sent no outbound query and has
\* made no cache write.
C6_InboundFailureAborts ==
  \A r \in Calls :
    InboundFailed(r)
    => /\ call[r].pc = "error"
       /\ call[r].error \in UpstreamErrorMessages
       /\ call[r].result = None
       /\ Len(io[r].sent) = 1
       /\ io[r].sets = 0
       /\ ~io[r].stored

\* a first-page call was aborted by an error envelope that came with a result
C6_Witness ==
  \E r \in Calls :
    /\ InboundAnswered(r)
    /\ io[r].inbound[1].shape = ShapeRpcErrorWithResult
    /\ ~truthy(call[r].pageKey)
    /\ call[r].pc = "error"

\* C7: a call whose cache write has failed is nevertheless done, holding the
\* page it computed.
C7_StoreFailureRecovered ==
  \A r \in Calls :
    (io[r].sets = 1 /\ ~io[r].stored /\ call[r].pc # "caching")
    => /\ call[r].pc = "done"
       /\ call[r].result # None

\* C8: every page a call holds and every page in the cache is unique by
\* hash, and every page in the cache is sorted.
C8_PagesUniqueByHash ==
  /\ \A page \in CallPages \cup CachedPages : UniqueByHash(page.items)
  /\ \A page \in CachedPages : SortedDescending(page.items)

\* a call fetched the same hash more than once, with a usable outbound
\* batch, and its page is stored
C8_Witness ==
  \E r \in Calls :
    /\ call[r].pc = "done"
    /\ Fresh(r)
    /\ io[r].repeated
    /\ OutboundAnswered(r) /\ ~OutboundFailed(r)
    /\ io[r].stored

\* C9: every page is ordered by timestamp descending, and in a freshly
\* computed page items of equal timestamp stand in the order in which their
\* hashes were first fetched.
C9_SortedStable ==
  /\ \A page \in CallPages \cup CachedPages : SortedDescending(page.items)
  /\ \A r \in Calls :
       Fresh(r) =>
         LET items == call[r].result[1].items
         IN  \A i, j \in 1..Len(items) :
               (i < j /\ items[i].timestamp = items[j].timestamp)
               => PositionIn(io[r].fetchOrder, items[i].hash)
                    < PositionIn(io[r].fetchOrder, items[j].hash)

\* a fresh page of two items stands in another order than the one fetched
C9_Witness ==
  \E r \in Calls :
    /\ call[r].pc = "done"
    /\ Fresh(r)
    /\ Len(call[r].result[1].items) = 2
    /\ hashesOf(call[r].result[1].items) # io[r].fetchOrder

\* C10: the nextPageKey of a freshly computed page is the cursor of the
\* inbound response, whatever the outbound query did.
C10_NextPageKeyIsInboundCursor ==
  \A r \in Calls :
    Fresh(r) =>
      /\ InboundSucceeded(r)
      /\ call[r].result[1].nextPageKey = io[r].inbound[1].pageKey

\* a fresh page carries the inbound cursor although the outbound response
\* carried another
C10_Witness ==
  \E r \in Calls :
    /\ call[r].pc = "done"
    /\ Fresh(r)
    /\ InboundSucceeded(r) /\ io[r].inbound[1].pageKey = "k1"
    /\ OutboundAnswered(r) /\ io[r].outbound[1].pageKey = "o1"
    /\ call[r].result[1].nextPageKey = "k1"

\* C11: every cache write stores its entry with 60000 ms when the request
\* carried no pageKey and with 300000 ms when it carried one, touches no
\* other entry, and is the only write of its call; no entry ever has another
\* lifetime.
C11_TtlByPageKey ==
  [][/\ \A r \in Calls :
          (call[r].pc = "caching" /\ call'[r].pc = "done")
          => /\ call[r].cacheKey \in DOMAIN cache'
             /\ cache'[call[r].cacheKey].ttl =
                  (IF call[r].pageKey \in {Undefined, ""} THEN 60000 ELSE 300000)
             /\ cache'[call[r].cacheKey].value = call[r].result[1]
             /\ \A k \in DOMAIN cache \ {call[r].cacheKey} :
                  k \in DOMAIN cache' /\ cache'[k] = cache[k]
             /\ io[r].sets = 1 /\ io'[r].sets = 1
             /\ ~io[r].stored /\ io'[r].stored
     /\ \A k \in DOMAIN cache' : cache'[k].ttl \in {60000, 300000}
     /\ \A r \in Calls :
          (call'[r].pc = "done" /\ call'[r].cached = None)
          => io'[r].sets = 1 /\ io'[r].stored]_vars

\* the cache holds a first page with the short lifetime and a later page with
\* the long one
C11_Witness ==
  \E k1, k2 \in DOMAIN cache :
    /\ k1[3] = "first" /\ cache[k1].ttl = 60000
    /\ k2[3] = "k1" /\ cache[k2].ttl = 300000

\* C12: when the cache holds an entry for the call's chain and page whose
\* address differs from the call's address in letter case at most, the lookup
\* is a hit: the call ends with the stored page and has sent no upstream query.
C12_CaseInsensitiveHit ==
  [][\A r \in Calls :
       (/\ call[r].pc = "cache-lookup"
        /\ call'[r].pc # "cache-lookup"
        /\ \E k \in DOMAIN cache :
             /\ k[1] = call[r].chainId
             /\ toLowerCase(k[2]) = toLowerCase(call[r].address)
             /\ k[3] = call[r].cacheKey[3])
       => /\ call'[r].pc = "done"
          /\ call'[r].cached # None
          /\ io'[r].sent = <<>>]_vars

\* 0x followed by exactly 40 hexadecimal digits of either case
IsHexAddress(s) ==
  /\ Len(s) = 42
  /\ SubSeq(s, 1, 2) = <<"0", "x">>
  /\ \A i \in 3..42 :
       s[i] \in {"0", "1", "2", "3", "4", "5", "6", "7", "8", "9",
                 "a", "b", "c", "d", "e", "f", "A", "B", "C", "D", "E", "F"}

\* the messages of the errors validateAddress raises
AddressErrorMessages ==
  {"Address must start with 0x", "Address must be 42 characters", "Invalid address format"}

\* C17: a call goes past address validation exactly when its address is 0x
\* followed by 40 hexadecimal digits of either case; on every other string
\* it has failed with an address error, has not read or written the cache
\* and has sent no upstream query.
C17_AddressValidatedExactly ==
  \A r \in Calls :
    call[r].pc # "idle" =>
      IF IsHexAddress(call[r].address)
        THEN ~(call[r].pc = "error" /\ call[r].error \in AddressErrorMessages)
        ELSE /\ call[r].pc = "error"
             /\ call[r].error \in AddressErrorMessages
             /\ io[r].gets = 0
             /\ io[r].sets = 0
             /\ io[r].sent = <<>>
             /\ ~io[r].stored

\* a mixed-case address was accepted and its page stored, and then an
\* address of the right prefix and length whose last character is no
\* hexadecimal digit was rejected
C17_Witness ==
  \E r \in Calls :
    /\ \E k \in DOMAIN cache : k[2] = AddrMixed
    /\ call[r].address = AddrNonHexLast
    /\ call[r].pc = "error"
    /\ call[r].error = "Invalid address format"

\* the invocation r of function fn has returned
Returned(r, fn) == call[r].fn = fn /\ call[r].pc = "returned"

\* the transfer of invocation r is a native or erc20 one with a raw amount
ConvertsRawAmount(r) ==
  /\ Returned(r, "normalizeTransfer")
  /\ call[r].args.transfer.category \in {"external", "erc20"}
  /\ call[r].args.transfer.rawValue # <<>>

\* the decimals count that applies to a transfer
DecimalsOf(transfer) ==
  IF transfer.category = "erc20" /\ transfer.rawDecimal # <<>>
    THEN parseInt16(transfer.rawDecimal) ELSE 18

\* a digit string without its leading zeros; "0" for zero
RECURSIVE stripLeadingZeros(_)
stripLeadingZeros(ds) ==
  IF ds = <<>> THEN <<"0">>
  ELSE IF ds[1] = "0" THEN stripLeadingZeros(Tail(ds))
  ELSE ds

\* the digits of 10^18
TenToThe18 == <<"1">> \o [i \in 1..18 |-> "0"]

\* the decimal digits of a raw amount, by integer arithmetic where the
\* literal is short enough for it
RawDigits(hex) ==
  IF Len(hex) <= 8 THEN natToString(parseInt16(hex)) ELSE TenToThe18

\* position of the decimal point in str, 0 when there is none
PointIndex(str) ==
  IF \E i \in 1..Len(str) : str[i] = "."
    THEN CHOOSE i \in 1..Len(str) : str[i] = "." ELSE 0

IntegerPartOf(str) ==
  IF PointIndex(str) = 0 THEN str ELSE SubSeq(str, 1, PointIndex(str) - 1)

FractionOf(str) ==
  IF PointIndex(str) = 0 THEN <<>> ELSE SubSeq(str, PointIndex(str) + 1, Len(str))

DecimalDigits == {"0", "1", "2", "3", "4", "5", "6", "7", "8", "9"}

\* str denotes digits / 10^d: digits only around at most one point, and the
\* integer part followed by the fraction filled up to d places is digits
DenotesExactly(str, digits, d) ==
  /\ \A i \in 1..Len(str) : str[i] \in DecimalDigits \cup {"."}
  /\ \A i \in 1..Len(FractionOf(str)) : FractionOf(str)[i] # "."
  /\ Len(FractionOf(str)) <= d
  /\ stripLeadingZeros(IntegerPartOf(str) \o FractionOf(str)
                         \o [i \in 1..(d - Len(FractionOf(str))) |-> "0"])
       = stripLeadingZeros(digits)

\* C13: the value of a native or erc20 item converted from a raw amount
\* denotes exactly raw / 10^d, with every digit of raw kept; 10^18 with 18
\* decimals is "1", zero is "0", and 1500000 with 6 decimals is "1.5".
C13_ValueIsExact ==
  \A r \in Calls :
    ConvertsRawAmount(r) =>
      LET transfer == call[r].args.transfer
          value == call[r].out[1].value
      IN  /\ DenotesExactly(value, RawDigits(transfer.rawValue), DecimalsOf(transfer))
          /\ (Len(transfer.rawValue) > 8 /\ DecimalsOf(transfer) = 18) => value = <<"1">>
          /\ RawDigits(transfer.rawValue) = <<"0">> => value = <<"0">>
          /\ (/\ RawDigits(transfer.rawValue) = <<"1", "5", "0", "0", "0", "0", "0">>
              /\ DecimalsOf(transfer) = 6) => value = <<"1", ".", "5">>

\* 1500000 units of a token with 6 decimals came out as 1.5
C13_Witness ==
  \E r \in Calls :
    /\ ConvertsRawAmount(r)
    /\ call[r].args.transfer.category = "erc20"
    /\ call[r].args.transfer.rawValue = HexLiteral(<<"1", "6", "e", "3", "6", "0">>)
    /\ call[r].args.transfer.rawDecimal = HexLiteral(<<"6">>)
    /\ call[r].out[1].value = <<"1", ".", "5">>

\* C14: the value of a native or erc20 item converted from a raw amount is in
\* canonical form for every decimals count, 0 included: no zero at the end
\* of a fraction, no point at the end, an integer part that is not empty, and
\* "0" exactly when the amount is zero.
C14_ValueIsCanonical ==
  \A r \in Calls :
    ConvertsRawAmount(r) =>
      LET transfer == call[r].args.transfer
          value == call[r].out[1].value
      IN  /\ value # <<>>
          /\ value[Len(value)] # "."
          /\ PointIndex(value) # 0 => value[Len(value)] # "0"
          /\ IntegerPartOf(value) # <<>>
          /\ (value = <<"0">>) <=> (RawDigits(transfer.rawValue) = <<"0">>)

\* C15: the value of a native item without a raw amount is the upstream
\* number as it is written, whole numbers included, and "0" when there is no
\* upstream number either.
C15_FallbackValueUnchanged ==
  \A r \in Calls :
    (/\ Returned(r, "normalizeTransfer")
     /\ call[r].args.transfer.category = "external"
     /\ call[r].args.transfer.rawValue = <<>>)
    => LET upstream == call[r].args.transfer.value
           value == call[r].out[1].value
       IN  IF upstream = Undef THEN value = <<"0">>
           ELSE value = numberToString(upstream.v)

\* the page size a call asks for, 100 when it names none
RequestedOrDefault(pageSize) == IF pageSize = Undef THEN 100 ELSE pageSize.v

\* C16: validatePageSize either fails with the page-size error or returns a
\* positive integer, which is the smaller of the requested size (100 when
\* none is requested) and the configured maximum when one is configured.
C16_PageSizePositiveInteger ==
  \A r \in Calls :
    Returned(r, "validatePageSize") =>
      LET pageSize == call[r].args.pageSize
          out == call[r].out[1]
      IN  IF out.ok
            THEN /\ out.size.t = "num"
                 /\ out.size.v >= 1
                 /\ config.maxPageSize >= 1
                      => out.size.v = Min(RequestedOrDefault(pageSize), config.maxPageSize)
            ELSE out.message = "pageSize must be a positive number"

\* the letters of the hexadecimal digits, lower case and upper case
CasePairs ==
  {<<"a", "A">>, <<"b", "B">>, <<"c", "C">>, <<"d", "D">>, <<"e", "E">>, <<"f", "F">>}

\* a and b are the same string up to the case of letters
SameIgnoringCase(a, b) ==
  /\ Len(a) = Len(b)
  /\ \A i \in 1..Len(a) :
       \/ a[i] = b[i]
       \/ <<a[i], b[i]>> \in CasePairs
       \/ <<b[i], a[i]>> \in CasePairs

\* lower is the string raw with every upper-case letter in lower case
IsLowerCaseOf(lower, raw) ==
  /\ SameIgnoringCase(lower, raw)
  /\ \A i \in 1..Len(lower) : \A p \in CasePairs : lower[i] # p[2]

\* C18: the direction of an item is self when from and to both are the
\* target address up to letter case, out when only from is, in when only to
\* is and unknown when neither is, and the item's from and to are the raw
\* addresses in lower case.
C18_DirectionByCaseInsensitiveMatch ==
  \A r \in Calls :
    Returned(r, "normalizeTransfer") =>
      LET transfer == call[r].args.transfer
          item == call[r].out[1]
          fromMatches == SameIgnoringCase(transfer.from, call[r].args.address)
          toMatches == SameIgnoringCase(transfer.to, call[r].args.address)
      IN  /\ item.direction \in {"self", "out", "in", "unknown"}
          /\ item.direction = "self" <=> (fromMatches /\ toMatches)
          /\ item.direction = "out" <=> (fromMatches /\ ~toMatches)
          /\ item.direction = "in" <=> (~fromMatches /\ toMatches)
          /\ item.direction = "unknown" <=> (~fromMatches /\ ~toMatches)
          /\ IsLowerCaseOf(item.from, transfer.from)
          /\ IsLowerCaseOf(item.to, transfer.to)

\* a transfer sent by the target, written in another case than the target
\* address, to someone else came out as out
C18_Witness ==
  \E r \in Calls :
    /\ Returned(r, "normalizeTransfer")
    /\ call[r].args.transfer.from = AddrMixed
    /\ call[r].args.transfer.to = AddrUpper
    /\ call[r].args.address = AddrLower
    /\ call[r].out[1].direction = "out"
    /\ call[r].out[1].from = AddrLower

\* C19: a cache write onto a key that already holds an entry stores the page
\* the entry holds: against an unchanging upstream the calls that missed on
\* one key write one value, whichever write lands last.
C19_WritesIdempotent ==
  [][\A r \in Calls :
       (/\ call[r].pc = "caching"
        /\ call'[r].pc = "done"
        /\ call[r].cacheKey \in DOMAIN cache)
       => cache'[call[r].cacheKey].value = cache[call[r].cacheKey].value]_vars

\* C20: when a call builds its page from an inbound batch that is no longer
\* than the page size, every hash of that batch is in the page, so following
\* the inbound cursor from there on skips no inbound transfer.
C20_NoInboundTransferSkipped ==
  [][\A r \in Calls :
       /\ (/\ call[r].pc = "fetching-outbound"
           /\ call'[r].pc = "caching"
           /\ call[r].validatedPageSize.t = "num"
           /\ Len(call[r].items) <= call[r].validatedPageSize.v)
          => Range(hashesOf(call[r].items))
               \subseteq Range(hashesOf(call'[r].result[1].items))
       /\ (/\ call[r].pc = "fetching"
           /\ call'[r].pc = "caching"
           /\ call[r].validatedPageSize.t = "num"
           /\ Len(io'[r].fetchOrder) <= call[r].validatedPageSize.v)
          => Range(io'[r].fetchOrder)
               \subseteq Range(hashesOf(call'[r].result[1].items))]_vars

\* C21: a call that carries a non-empty pageKey is served from the cache
\* only with a page that a pageKey-bearing call stored (an entry of 300000
\* ms), a call without pageKey only with a page that a first-page call
\* stored (an entry of 60000 ms), and the key of the first page never holds
\* an entry of 300000 ms.
C21_FirstPageEntryApart ==
  [][/\ \A r \in Calls :
          (/\ call[r].pc = "cache-lookup"
           /\ call'[r].pc = "done"
           /\ call'[r].cached # None)
          => (truthy(call[r].pageKey) <=> cache[call[r].cacheKey].ttl = 300000)
     /\ \A k \in DOMAIN cache' :
          k = cacheKeyOf(k[1], k[2], Undefined) => cache'[k].ttl = 60000]_vars

====
